---- MODULE Spec2Model ----
(***************************************************************************)
(* Mergeable classification metrics of parlai/core/torch_classifier_agent: *)
(* ConfusionMatrixMetric (Precision / Recall / F1), WeightedF1Metric and   *)
(* AUCMetrics, with the merges (+) that combine per-shard accumulators.    *)
(*                                                                         *)
(* Numbers.  A probability is a fixed-point decimal: the integer p stands  *)
(* for p / Scale, so 9000 is 0.9 and 1234 is 0.1234.  Thresholds use the   *)
(* same unit (the sentinel 1.5 is 15000).  A float result of value() is an *)
(* exact fraction [num, den] in lowest terms, den > 0; binary              *)
(* rounding of floats is not modelled.                                     *)
(*                                                                         *)
(* Python values.  Every object is a record with a "kind" field naming its *)
(* class; None is NoneVal; a call that raises yields Raised(exception).    *)
(***************************************************************************)
EXTENDS Integers, Sequences, FiniteSets, TLC

VARIABLES
    shards,     \* AUC reduction: the dataset, as a sequence of shards of samples
    pool,       \* AUC reduction: the accumulators still to be merged
    auc,        \* agent: self.auc
    batches,    \* agent: the number of batches handed to the agent so far
    cm,         \* confusion matrix: the inputs of compute_metrics and what it returned;
                \* in the agent, the class list and the number of examples seen
    cmpool,     \* confusion matrix: the per-example metrics still to be merged
    registry,   \* agent: the merged local metrics by name (None before any)
    subject,    \* a metric instance under test (any accumulator type)
    heap,       \* object identity: the allocated objects, by address
    last        \* the last operation performed: operands and outcome

vars == <<shards, pool, auc, batches, cm, cmpool, registry, subject, heap, last>>

----------------------------------------------------------------------------
(* Bounds of the model *)

MaxSamples == 3      \* samples in the AUC dataset
MaxShards == 3       \* shards the AUC dataset is split into
MaxBatches == 2      \* batches handed to the agent
MaxBatchLen == 3     \* samples per batch of _update_auc
MaxF1BatchLen == 2   \* examples per batch of _update_confusion_matrix
MaxExamples == 4     \* (prediction, gold label) pairs given to compute_metrics
MaxCount == 2        \* largest counter of a directly constructed metric

(* Units *)
Scale == 10 * 10 * 10 * 10

(* Program constants *)
Sentinel == 15000            \* the threshold 1.5 no probability reaches
DefaultDecPlaces == 3        \* max_dec_places default

\* the samples a shard is drawn from: 0.1 and 0.9 under either label (on the grid of
\* three decimal places) and 0.1234 (between the grid points 0.123 and 0.124)
Sample(label, prob) == [label |-> label, prob |-> prob]
Samples == {Sample("pos", 9000), Sample("neg", 1000), Sample("pos", 1000),
            Sample("neg", 9000), Sample("pos", 1234)}
ClassName == "pos"

NoneVal == [kind |-> "None"]
Raised(e) == [kind |-> "Raised", exc |-> e]
Exceptions == {"AssertionError", "IndexError", "ZeroDivisionError", "ValueError", "TypeError"}
IsRaised(x) == \E e \in Exceptions : x = Raised(e)

----------------------------------------------------------------------------
(* Exact fractions standing for Python floats *)

RECURSIVE GCD(_, _)
GCD(a, b) == IF b = 0 THEN a ELSE GCD(b, a % b)

Abs(a) == IF a < 0 THEN -a ELSE a

\* n / d in lowest terms, d > 0
Frac(n, d) ==
    LET g == GCD(Abs(n), Abs(d))
        s == IF d < 0 THEN -1 ELSE 1
    IN  [num |-> s * (n \div g), den |-> s * (d \div g)]

FracAdd(x, y) == Frac(x.num * y.den + y.num * x.den, x.den * y.den)
FracSub(x, y) == Frac(x.num * y.den - y.num * x.den, x.den * y.den)
FracMul(x, y) == Frac(x.num * y.num, x.den * y.den)
FracLess(x, y) == x.num * y.den < y.num * x.den
Zero == Frac(0, 1)
One == Frac(1, 1)
Half == Frac(1, 2)

RECURSIVE Pow10(_)
Pow10(d) == IF d = 0 THEN 1 ELSE 10 * Pow10(d - 1)

\* math.floor(x) and math.ceil(x) of the quotient a / b, b > 0, a >= 0
Floor(a, b) == a \div b
Ceil(a, b) == (a + b - 1) \div b

\* sorted(set)
RECURSIVE Sorted(_)
Sorted(S) ==
    IF S = {} THEN <<>>
    ELSE LET m == CHOOSE x \in S : \A y \in S : x <= y
         IN  <<m>> \o Sorted(S \ {m})

\* arr[i:], i a 0-based Python index
Tail0(arr, i) == SubSeq(arr, i + 1, Len(arr))

\* np.searchsorted(arr, v, side) on a sorted array: the 0-based insertion point
SearchSorted(arr, v, side) ==
    IF side = "left"
    THEN Cardinality({k \in 1..Len(arr) : arr[k] < v})
    ELSE Cardinality({k \in 1..Len(arr) : arr[k] <= v})

\* dict.get(k), None when absent
DictGet(d, k) == IF k \in DOMAIN d THEN d[k] ELSE NoneVal

----------------------------------------------------------------------------
(* AUCMetrics *)

\* the list [fp, tp] kept per threshold
Bucket(fp, tp) == [fp |-> fp, tp |-> tp]

AUCMetrics(values, pos_cnt, neg_cnt, sorted_keys, class_name) ==
    [kind |-> "AUCMetrics", key_vals |-> values, pos_cnt |-> pos_cnt,
     neg_cnt |-> neg_cnt, sorted_keys |-> sorted_keys, class_name |-> class_name]

\* floor(prob * CONST) / CONST and ceil(prob * CONST) / CONST, in Scale units
ProbDown(prob, max_dec_places) ==
    LET const == Pow10(max_dec_places)
    IN  Floor(prob * const, Scale) * (Scale \div const)

ProbUp(prob, max_dec_places) ==
    LET const == Pow10(max_dec_places)
    IN  Ceil(prob * const, Scale) * (Scale \div const)

\* the grid of a shard: the sentinel and both roundings of every probability
AllThresholds(class_probs, max_dec_places) ==
    {Sentinel}
        \cup {ProbDown(class_probs[i], max_dec_places) : i \in 1..Len(class_probs)}
        \cup {ProbUp(class_probs[i], max_dec_places) : i \in 1..Len(class_probs)}

\* a counting loop that counts a sample at the thresholds above its probability
RECURSIVE RawValuesLoopAbove(_, _, _, _, _, _)
RawValuesLoopAbove(values, i, true_labels, class_probs, class_name, sorted_thresholds) ==
    IF i > Len(class_probs) \/ i > Len(true_labels) THEN values
    ELSE LET prob == class_probs[i]
             effected_ind == IF true_labels[i] = class_name THEN 1 ELSE 0
             ind == SearchSorted(sorted_thresholds, prob, "left")
             hit == {sorted_thresholds[k] : k \in (ind + 1)..Len(sorted_thresholds)}
             bumped == [t \in DOMAIN values |->
                          IF t \in hit
                          THEN IF effected_ind = 0
                               THEN [values[t] EXCEPT !.fp = @ + 1]
                               ELSE [values[t] EXCEPT !.tp = @ + 1]
                          ELSE values[t]]
         IN  RawValuesLoopAbove(bumped, i + 1, true_labels, class_probs, class_name,
                                sorted_thresholds)

\* the loop over zip(true_labels, class_probs) that fills values
RECURSIVE RawValuesLoop(_, _, _, _, _, _)
RawValuesLoop(values, i, true_labels, class_probs, class_name, sorted_thresholds) ==
    IF i > Len(class_probs) \/ i > Len(true_labels) THEN values
    ELSE LET prob == class_probs[i]
             effected_ind == IF true_labels[i] = class_name THEN 1 ELSE 0
             ind0 == SearchSorted(sorted_thresholds, prob, "left")
             ind == IF ind0 < Len(sorted_thresholds) /\ sorted_thresholds[ind0 + 1] = prob
                    THEN ind0 + 1 ELSE ind0
             hit == {sorted_thresholds[k] : k \in 1..ind}
             bumped == [t \in DOMAIN values |->
                          IF t \in hit
                          THEN IF effected_ind = 0
                               THEN [values[t] EXCEPT !.fp = @ + 1]
                               ELSE [values[t] EXCEPT !.tp = @ + 1]
                          ELSE values[t]]
         IN  RawValuesLoop(bumped, i + 1, true_labels, class_probs, class_name,
                           sorted_thresholds)

RawDataToAuc(true_labels, class_probs, class_name, max_dec_places) ==
    IF Len(true_labels) # Len(class_probs) THEN Raised("AssertionError")
    ELSE IF Len(class_probs) = 0 THEN AUCMetrics(<<>>, 0, 0, <<>>, class_name)
    ELSE LET pos_cnt == Cardinality({i \in 1..Len(true_labels) : true_labels[i] = class_name})
             neg_cnt == Len(true_labels) - pos_cnt
             all_thresholds == AllThresholds(class_probs, max_dec_places)
             sorted_thresholds == Sorted(all_thresholds)
             values == RawValuesLoop([t \in all_thresholds |-> Bucket(0, 0)], 1, true_labels,
                                     class_probs, class_name, sorted_thresholds)
         IN  AUCMetrics(values, pos_cnt, neg_cnt, sorted_thresholds, class_name)

\* _get_fp_tp: the bucket of a threshold, through the next grid point when absent
\* a lookup that gives the last bucket for every threshold absent from the grid
GetFpTpClamped(self, threshold) ==
    IF DictGet(self.key_vals, threshold) # NoneVal THEN self.key_vals[threshold]
    ELSE IF Len(self.sorted_keys) = 0 THEN Raised("IndexError")
    ELSE self.key_vals[self.sorted_keys[Len(self.sorted_keys)]]

GetFpTp(self, threshold) ==
    IF DictGet(self.key_vals, threshold) # NoneVal THEN self.key_vals[threshold]
    ELSE LET found == SearchSorted(self.sorted_keys, threshold, "right")
             tmp_key == IF found >= Len(self.sorted_keys)
                        THEN Len(self.sorted_keys) - 1 ELSE found
         IN  IF Len(self.sorted_keys) = 0 THEN Raised("IndexError")
             ELSE self.key_vals[self.sorted_keys[tmp_key + 1]]

RECURSIVE MergeLoop(_, _, _, _, _)
MergeLoop(arr1, arr2, i1, i2, arr_together) ==
    IF i1 < Len(arr1) /\ i2 < Len(arr2)
    THEN LET curr_min == IF arr1[i1 + 1] > arr2[i2 + 1] THEN arr2[i2 + 1] ELSE arr1[i1 + 1]
             j1 == IF curr_min = arr1[i1 + 1] THEN i1 + 1 ELSE i1
             j2 == IF curr_min = arr2[i2 + 1] THEN i2 + 1 ELSE i2
         IN  MergeLoop(arr1, arr2, j1, j2, Append(arr_together, curr_min))
    ELSE arr_together \o Tail0(arr1, i1) \o Tail0(arr2, i2)

\* a merge that appends the new thresholds of arr2 behind arr1 instead of interleaving
MergeAppended(arr1, arr2) ==
    arr1 \o SelectSeq(arr2, LAMBDA t : \A k \in 1..Len(arr1) : arr1[k] # t)

MergeSortedNoDupes(arr1, arr2) == MergeLoop(arr1, arr2, 0, 0, <<>>)

\* the loop of __add__ over all_thresholds, giving the dict all_vals; the first lookup
\* that raises ends it
RECURSIVE AddValsLoop(_, _, _, _, _)
AddValsLoop(self, other, all_thresholds, k, all_vals) ==
    IF k > Len(all_thresholds) THEN [kind |-> "dict", items |-> all_vals]
    ELSE LET threshold == all_thresholds[k]
             s == GetFpTp(self, threshold)
             o == GetFpTp(other, threshold)
         IN  IF IsRaised(s) THEN s
             ELSE IF IsRaised(o) THEN o
             ELSE AddValsLoop(self, other, all_thresholds, k + 1,
                              [t \in DOMAIN all_vals \cup {threshold} |->
                                  IF t = threshold THEN Bucket(s.fp + o.fp, s.tp + o.tp)
                                  ELSE all_vals[t]])

AucAdd(self, other) ==
    IF other = NoneVal THEN self
    ELSE IF other.kind # "AUCMetrics" THEN Raised("AssertionError")
    ELSE IF other.class_name # self.class_name THEN Raised("AssertionError")
    ELSE LET all_neg == self.neg_cnt + other.neg_cnt
             all_pos == self.pos_cnt + other.pos_cnt
             all_thresholds == MergeSortedNoDupes(self.sorted_keys, other.sorted_keys)
             all_vals == AddValsLoop(self, other, all_thresholds, 1, <<>>)
         IN  IF IsRaised(all_vals) THEN all_vals
             ELSE AUCMetrics(all_vals.items, all_pos, all_neg, all_thresholds,
                             self.class_name)

\* sklearn.metrics.auc(x, y): the trapezoidal area, its sign corrected when x decreases
RECURSIVE Trapz(_, _, _)
Trapz(y, x, i) ==
    IF i >= Len(x) THEN Zero
    ELSE FracAdd(FracMul(FracMul(FracSub(x[i + 1], x[i]), FracAdd(y[i], y[i + 1])), Half),
                 Trapz(y, x, i + 1))

SkAuc(x, y) ==
    IF Len(x) < 2 THEN Raised("ValueError")
    ELSE LET falls == {i \in 1..(Len(x) - 1) : FracLess(x[i + 1], x[i])}
             rises == {i \in 1..(Len(x) - 1) : FracLess(x[i], x[i + 1])}
         IN  IF falls # {} /\ rises # {} THEN Raised("ValueError")
             ELSE IF falls # {} THEN FracSub(Zero, Trapz(y, x, 1))
             ELSE Trapz(y, x, 1)

\* a value() that answers 0 when a class is absent
AucValueGuarded(self) ==
    LET n == Len(self.sorted_keys)
        fpr == [i \in 1..n |-> Frac(self.key_vals[self.sorted_keys[i]].fp, self.neg_cnt)]
        tpr == [i \in 1..n |-> Frac(self.key_vals[self.sorted_keys[i]].tp, self.pos_cnt)]
    IN  IF self.neg_cnt = 0 \/ self.pos_cnt = 0 THEN Zero
        ELSE LET area == SkAuc(fpr, tpr)
             IN  IF IsRaised(area) THEN area ELSE FracSub(One, area)

\* AUCMetrics.value: fp / neg_cnt and tp / pos_cnt per threshold, then 1 - auc(fpr, tpr)
AucValue(self) ==
    LET n == Len(self.sorted_keys)
        fpr == [i \in 1..n |-> Frac(self.key_vals[self.sorted_keys[i]].fp, self.neg_cnt)]
        tpr == [i \in 1..n |-> Frac(self.key_vals[self.sorted_keys[i]].tp, self.pos_cnt)]
    IN  IF n > 0 /\ (self.neg_cnt = 0 \/ self.pos_cnt = 0) THEN Raised("ZeroDivisionError")
        ELSE LET area == SkAuc(fpr, tpr)
             IN  IF IsRaised(area) THEN area ELSE FracSub(One, area)

----------------------------------------------------------------------------
(* ConfusionMatrixMetric and its three views *)

CMKinds == {"PrecisionMetric", "RecallMetric", "ClassificationF1Metric"}

\* type(...)(true_positives, true_negatives, false_positives, false_negatives)
ConfusionMatrixMetric(kind, true_positives, true_negatives, false_positives, false_negatives) ==
    [kind |-> kind, true_positives |-> true_positives, true_negatives |-> true_negatives,
     false_positives |-> false_positives, false_negatives |-> false_negatives]

\* isinstance(x, ConfusionMatrixMetric)
IsConfusionMatrixMetric(x) == x.kind \in CMKinds

\* a merge that takes the right operand's true negatives only
CMAddDropsLeftNegatives(self, other) ==
    IF other = NoneVal THEN self
    ELSE IF ~IsConfusionMatrixMetric(other) THEN Raised("AssertionError")
    ELSE ConfusionMatrixMetric(self.kind,
                               self.true_positives + other.true_positives,
                               other.true_negatives,
                               self.false_positives + other.false_positives,
                               self.false_negatives + other.false_negatives)

\* a merge that has no case for None
CMAddWithoutNoneCase(self, other) ==
    IF other = NoneVal THEN Raised("AssertionError")
    ELSE IF ~IsConfusionMatrixMetric(other) THEN Raised("AssertionError")
    ELSE ConfusionMatrixMetric(self.kind,
                               self.true_positives + other.true_positives,
                               self.true_negatives + other.true_negatives,
                               self.false_positives + other.false_positives,
                               self.false_negatives + other.false_negatives)

\* ConfusionMatrixMetric.__add__
CMAdd(self, other) ==
    IF other = NoneVal THEN self
    ELSE IF ~IsConfusionMatrixMetric(other) THEN Raised("AssertionError")
    ELSE ConfusionMatrixMetric(self.kind,
                               self.true_positives + other.true_positives,
                               self.true_negatives + other.true_negatives,
                               self.false_positives + other.false_positives,
                               self.false_negatives + other.false_negatives)

\* ConfusionMatrixMetric.compute_many: the tuple (precision, recall, f1)
ComputeMany(true_positives, true_negatives, false_positives, false_negatives) ==
    <<ConfusionMatrixMetric("PrecisionMetric", true_positives, true_negatives,
                            false_positives, false_negatives),
      ConfusionMatrixMetric("RecallMetric", true_positives, true_negatives,
                            false_positives, false_negatives),
      ConfusionMatrixMetric("ClassificationF1Metric", true_positives, true_negatives,
                            false_positives, false_negatives)>>

\* int(bool)
BoolToInt(b) == IF b THEN 1 ELSE 0

Min(a, b) == IF a < b THEN a ELSE b

\* the metric triple of one (predicted, gold_label) pair
ComputeOne(predicted, gold_label, positive_class) ==
    ComputeMany(BoolToInt(predicted = positive_class /\ gold_label = positive_class),
                BoolToInt(predicted # positive_class /\ gold_label # positive_class),
                BoolToInt(predicted = positive_class /\ gold_label # positive_class),
                BoolToInt(predicted # positive_class /\ gold_label = positive_class))

\* a compute_metrics that counts a missed positive as a false positive
ComputeMetricsSwapped(predictions, gold_labels, positive_class) ==
    LET n == Min(Len(predictions), Len(gold_labels))
        one(i) == ComputeOne(gold_labels[i], predictions[i], positive_class)
    IN  <<[i \in 1..n |-> one(i)[1]], [i \in 1..n |-> one(i)[2]],
          [i \in 1..n |-> one(i)[3]]>>

\* ConfusionMatrixMetric.compute_metrics: the lists (precisions, recalls, f1s), one
\* entry per pair of zip(predictions, gold_labels)
ComputeMetrics(predictions, gold_labels, positive_class) ==
    LET n == Min(Len(predictions), Len(gold_labels))
        one(i) == ComputeOne(predictions[i], gold_labels[i], positive_class)
    IN  <<[i \in 1..n |-> one(i)[1]], [i \in 1..n |-> one(i)[2]],
          [i \in 1..n |-> one(i)[3]]>>

PrecisionValue(self) ==
    IF self.true_positives = 0 THEN Zero
    ELSE Frac(self.true_positives, self.true_positives + self.false_positives)

\* a recall that divides by the predicted positives
RecallValueOverPredicted(self) ==
    IF self.true_positives = 0 THEN Zero
    ELSE Frac(self.true_positives, self.true_positives + self.false_positives)

RecallValue(self) ==
    IF self.true_positives = 0 THEN Zero
    ELSE Frac(self.true_positives, self.true_positives + self.false_negatives)

F1Value(self) ==
    IF self.true_positives = 0 THEN Zero
    ELSE LET numer == 2 * self.true_positives
             denom == numer + self.false_negatives + self.false_positives
         IN  Frac(numer, denom)

\* value() of a ConfusionMatrixMetric, by its concrete class
CMValue(self) ==
    IF self.kind = "PrecisionMetric" THEN PrecisionValue(self)
    ELSE IF self.kind = "RecallMetric" THEN RecallValue(self)
    ELSE F1Value(self)

----------------------------------------------------------------------------
(* WeightedF1Metric.  A Python dict is its keys in insertion order (order) and the
   mapping itself (items). *)

Dict(order, items) == [order |-> order, items |-> items]
EmptyDict == Dict(<<>>, <<>>)

WeightedF1Metric(metrics) == [kind |-> "WeightedF1Metric", values |-> metrics]

\* Metric.__radd__, reached by None + v: an absent left operand leaves v as it is
MetricRAdd(self, other) ==
    IF other = NoneVal THEN self ELSE CMAdd(self, other)

\* output[k] = output.get(k, None) + v
DictMergeItem(output, k, v) ==
    IF k \in DOMAIN output.items
    THEN Dict(output.order, [output.items EXCEPT ![k] = CMAdd(output.items[k], v)])
    ELSE Dict(Append(output.order, k),
              [c \in DOMAIN output.items \cup {k} |->
                  IF c = k THEN MetricRAdd(v, NoneVal) ELSE output.items[c]])

\* the loop of WeightedF1Metric.__add__ over other._values.items()
RECURSIVE WF1AddLoop(_, _, _)
WF1AddLoop(output, other, i) ==
    IF i > Len(other.order) THEN output
    ELSE WF1AddLoop(DictMergeItem(output, other.order[i], other.items[other.order[i]]),
                    other, i + 1)

\* WeightedF1Metric.__add__
WF1Add(self, other) ==
    IF other = NoneVal THEN self
    ELSE IF other.kind # "WeightedF1Metric" THEN Raised("AssertionError")
    ELSE WeightedF1Metric(WF1AddLoop(self.values, other.values, 1))

\* the loop of WeightedF1Metric.value over values
RECURSIVE WF1ValueLoop(_, _, _, _)
WF1ValueLoop(values, total_examples, i, weighted_f1) ==
    IF i > Len(values.order) THEN weighted_f1
    ELSE LET each == values.items[values.order[i]]
             actual_positive == each.true_positives + each.false_negatives
         IN  WF1ValueLoop(values, total_examples, i + 1,
                          FracAdd(weighted_f1,
                                  FracMul(CMValue(each), Frac(actual_positive, total_examples))))

\* a value() that weighs every class by its predicted positives
WF1ValueByPredicted(self) ==
    IF Len(self.values.order) = 0 THEN Zero
    ELSE LET first == self.values.items[self.values.order[1]]
             total_examples == first.true_positives + first.true_negatives
                                   + first.false_positives + first.false_negatives
             weigh(each) == FracMul(CMValue(each),
                                    Frac(each.true_positives + each.false_positives,
                                         total_examples))
             RECURSIVE sum(_)
             sum(i) == IF i > Len(self.values.order) THEN Zero
                       ELSE FracAdd(weigh(self.values.items[self.values.order[i]]), sum(i + 1))
         IN  IF total_examples = 0 THEN Raised("ZeroDivisionError") ELSE sum(1)

\* WeightedF1Metric.value
WF1Value(self) ==
    IF Len(self.values.order) = 0 THEN Zero
    ELSE LET first == self.values.items[self.values.order[1]]
             total_examples == first.true_positives + first.true_negatives
                                   + first.false_positives + first.false_negatives
         IN  IF total_examples = 0 THEN Raised("ZeroDivisionError")
             ELSE WF1ValueLoop(self.values, total_examples, 1, Zero)

\* the shortest list of a dict of lists: where zip(*metrics.values()) stops
RECURSIVE ShortestLen(_, _)
ShortestLen(metrics, i) ==
    IF i = Len(metrics.order) THEN Len(metrics.items[metrics.order[i]])
    ELSE Min(Len(metrics.items[metrics.order[i]]), ShortestLen(metrics, i + 1))

\* WeightedF1Metric.compute_many: one WeightedF1Metric per position of the lists
WF1ComputeMany(metrics) ==
    LET n == IF Len(metrics.order) = 0 THEN 0 ELSE ShortestLen(metrics, 1)
    IN  [i \in 1..n |->
            WeightedF1Metric(Dict(metrics.order,
                                  [c \in DOMAIN metrics.items |-> metrics.items[c][i]]))]

\* metric + other and metric.value(), by the class of metric
MetricAdd(self, other) ==
    IF self.kind = "AUCMetrics" THEN AucAdd(self, other)
    ELSE IF self.kind = "WeightedF1Metric" THEN WF1Add(self, other)
    ELSE CMAdd(self, other)

MetricValue(self) ==
    IF self.kind = "AUCMetrics" THEN AucValue(self)
    ELSE IF self.kind = "WeightedF1Metric" THEN WF1Value(self)
    ELSE CMValue(self)

----------------------------------------------------------------------------
(* Inputs *)

\* all sequences over S of length exactly n
RECURSIVE SeqsOfLen(_, _)
SeqsOfLen(S, n) ==
    IF n = 0 THEN {<<>>}
    ELSE {Append(q, x) : q \in SeqsOfLen(S, n - 1), x \in S}

\* all sequences over S of length lo..hi
SeqsBetween(S, lo, hi) == UNION {SeqsOfLen(S, n) : n \in lo..hi}

\* all ways to hand out at most n samples as k non-empty shards
RECURSIVE Shardings(_, _)
Shardings(k, n) ==
    IF k = 0 THEN {<<>>}
    ELSE UNION {{<<s>> \o rest : rest \in Shardings(k - 1, n - Len(s))} :
                    s \in SeqsBetween(Samples, 1, n - (k - 1))}

TrueLabels(samples) == [i \in 1..Len(samples) |-> samples[i].label]
ClassProbs(samples) == [i \in 1..Len(samples) |-> samples[i].prob]

\* the samples of the shards named in the set of, in shard order
RECURSIVE Concat(_, _)
Concat(sh, of) ==
    IF of = {} THEN <<>>
    ELSE LET m == CHOOSE x \in of : \A y \in of : x <= y
         IN  sh[m] \o Concat(sh, of \ {m})

Idle == [op |-> "none"]

----------------------------------------------------------------------------
(* The reduction of per-shard AUC accumulators: every shard is turned into an
   accumulator by raw_data_to_auc, the accumulators are merged pairwise with + in
   any order and grouping, and value() reads the AUC off an accumulator. *)

Init ==
    /\ shards \in UNION {Shardings(k, MaxSamples) : k \in 1..MaxShards}
    /\ pool = {}
    /\ last = Idle
    /\ heap = <<>>
    /\ auc = NoneVal
    /\ batches = 0
    /\ cm = NoneVal
    /\ cmpool = {}
    /\ registry = NoneVal
    /\ subject = NoneVal

\* raw_data_to_auc on every shard, at the default precision
BuildShards ==
    /\ pool = {}
    /\ pool' = {[of |-> {i},
                 m |-> RawDataToAuc(TrueLabels(shards[i]), ClassProbs(shards[i]),
                                    ClassName, DefaultDecPlaces)] : i \in 1..Len(shards)}
    /\ UNCHANGED <<heap, shards, auc, batches, cm, cmpool, registry, subject, last>>

\* e1.m + e2.m; the sum replaces its operands unless the merge raises
Merge(e1, e2) ==
    /\ e1 # e2
    /\ LET r == AucAdd(e1.m, e2.m)
       IN  /\ last' = [op |-> "add", self |-> e1.m, other |-> e2.m, result |-> r,
                       of |-> <<e1.of, e2.of>>]
           /\ pool' = IF IsRaised(r) THEN pool
                      ELSE (pool \ {e1, e2}) \cup {[of |-> e1.of \cup e2.of, m |-> r]}
    /\ UNCHANGED <<heap, shards, auc, batches, cm, cmpool, registry, subject>>

\* e.m.value(), read once the shards are merged into one accumulator (macro_average is
\* False: the shards are merged first and value() is taken of the merged accumulator)
Report(e) ==
    /\ pool = {e}
    /\ last' = [op |-> "value", self |-> e.m, result |-> AucValue(e.m), of |-> <<e.of>>]
    /\ UNCHANGED <<heap, shards, pool, auc, batches, cm, cmpool, registry, subject>>

Next ==
    \/ BuildShards
    \/ \E e1 \in pool, e2 \in pool : Merge(e1, e2)
    \/ \E e \in pool : Report(e)

Spec == Init /\ [][Next]_vars

----------------------------------------------------------------------------
(* The agent's AUC accumulator: self.auc starts as the accumulator of no data and
   _update_auc merges the accumulator of every batch into it. *)

InitAgent ==
    /\ auc = RawDataToAuc(<<>>, <<>>, ClassName, DefaultDecPlaces)
    /\ batches = 0
    /\ last = Idle
    /\ heap = <<>>
    /\ shards = <<>>
    /\ pool = {}
    /\ cm = NoneVal
    /\ cmpool = {}
    /\ registry = NoneVal
    /\ subject = NoneVal

\* _update_auc: self.auc += raw_data_to_auc(batch.labels, class_probs, class_name);
\* when the merge raises, the exception leaves the handler and self.auc is as before
UpdateAuc(batch) ==
    /\ batches < MaxBatches
    /\ LET x == RawDataToAuc(TrueLabels(batch), ClassProbs(batch), ClassName,
                             DefaultDecPlaces)
           r == AucAdd(auc, x)
       IN  /\ last' = [op |-> "add", self |-> auc, other |-> x, result |-> r]
           /\ auc' = IF IsRaised(r) THEN auc ELSE r
    /\ batches' = batches + 1
    /\ UNCHANGED <<heap, shards, pool, cm, cmpool, registry, subject>>

NextAgent == \E batch \in SeqsBetween(Samples, 0, MaxBatchLen) : UpdateAuc(batch)

SpecAgent == InitAgent /\ [][NextAgent]_vars

----------------------------------------------------------------------------
(* The reduction of per-example confusion-matrix metrics: compute_metrics turns the
   (prediction, gold label) pairs into one Precision, one Recall and one F1 metric per
   pair, the metrics of each view are merged pairwise with + in any order and
   grouping, and value() reads the three scores off the merged metrics. *)

Classes == {"A", "B"}
PositiveClass == "A"
Views == <<"PrecisionMetric", "RecallMetric", "ClassificationF1Metric">>

InitConfusion ==
    /\ \E n \in 0..MaxExamples :
          cm \in [predictions : SeqsOfLen(Classes, n), gold_labels : SeqsOfLen(Classes, n),
                  positive_class : {PositiveClass}, computed : {NoneVal}]
    /\ cmpool = {}
    /\ last = Idle
    /\ heap = <<>>
    /\ shards = <<>>
    /\ pool = {}
    /\ auc = NoneVal
    /\ batches = 0
    /\ registry = NoneVal
    /\ subject = NoneVal

\* compute_metrics(predictions, gold_labels, positive_class)
ComputeMetricsStep ==
    /\ cm.computed = NoneVal
    /\ LET c == ComputeMetrics(cm.predictions, cm.gold_labels, cm.positive_class)
       IN  /\ cm' = [cm EXCEPT !.computed = c]
           /\ cmpool' = {[of |-> {i}, m |-> <<c[1][i], c[2][i], c[3][i]>>] :
                             i \in 1..Len(c[1])}
    /\ UNCHANGED <<heap, shards, pool, auc, batches, registry, subject, last>>

\* e1.m[v] + e2.m[v] for each of the three views
MergeMetrics(e1, e2) ==
    /\ e1 # e2
    /\ LET r == [v \in 1..3 |-> CMAdd(e1.m[v], e2.m[v])]
       IN  /\ last' = [op |-> "add", self |-> e1.m, other |-> e2.m, result |-> r]
           /\ cmpool' = IF \E v \in 1..3 : IsRaised(r[v]) THEN cmpool
                        ELSE (cmpool \ {e1, e2}) \cup {[of |-> e1.of \cup e2.of, m |-> r]}
    /\ UNCHANGED <<heap, shards, pool, auc, batches, cm, registry, subject>>

\* value() of the three merged metrics
ReportMetrics(e) ==
    /\ cmpool = {e}
    /\ last' = [op |-> "value", self |-> e.m, result |-> [v \in 1..3 |-> CMValue(e.m[v])]]
    /\ UNCHANGED <<heap, shards, pool, auc, batches, cm, cmpool, registry, subject>>

NextConfusion ==
    \/ ComputeMetricsStep
    \/ \E e1 \in cmpool, e2 \in cmpool : MergeMetrics(e1, e2)
    \/ \E e \in cmpool : ReportMetrics(e)

SpecConfusion == InitConfusion /\ [][NextConfusion]_vars

----------------------------------------------------------------------------
(* The agent's confusion matrix: _update_confusion_matrix turns every batch into
   per-example metrics per class and records them; the registry merges what is
   recorded under one name with +. *)

ClassLists == {<<"A">>, <<"A", "B">>}

\* the examples of a batch: the prediction and the gold label are classes of the list
Examples(class_list) ==
    LET classes == {class_list[i] : i \in 1..Len(class_list)}
    IN  [predicted : classes, gold : classes]

Predictions(batch) == [i \in 1..Len(batch) |-> batch[i].predicted]
GoldLabels(batch) == [i \in 1..Len(batch) |-> batch[i].gold]

\* the names _update_confusion_matrix records under
MetricNames(class_list) ==
    {<<"class", class_list[i], suffix>> :
        i \in 1..Len(class_list), suffix \in {"prec", "recall", "f1"}}
        \cup {<<"weighted_f1">>}

\* the registry's merge of a recorded list into what it holds under a name
RECURSIVE FoldAdd(_, _, _)
FoldAdd(acc, values, i) ==
    IF i > Len(values) THEN acc
    ELSE FoldAdd(IF acc = NoneVal THEN values[i] ELSE MetricAdd(acc, values[i]),
                 values, i + 1)

\* record_local_metric(name, values)
RecordLocalMetric(reg, name, values) == [reg EXCEPT ![name] = FoldAdd(reg[name], values, 1)]

\* the loop of _update_confusion_matrix over class_list: records the three lists of
\* class i and puts its f1 list into f1_dict
RECURSIVE ClassLoop(_, _, _, _, _, _)
ClassLoop(reg, f1_dict, class_list, i, predictions, labels) ==
    IF i > Len(class_list) THEN [registry |-> reg, f1_dict |-> f1_dict]
    ELSE LET class_name == class_list[i]
             c == ComputeMetrics(predictions, labels, class_name)
             reg1 == RecordLocalMetric(reg, <<"class", class_name, "prec">>, c[1])
             reg2 == RecordLocalMetric(reg1, <<"class", class_name, "recall">>, c[2])
             reg3 == RecordLocalMetric(reg2, <<"class", class_name, "f1">>, c[3])
             dict == Dict(Append(f1_dict.order, class_name),
                          [k \in DOMAIN f1_dict.items \cup {class_name} |->
                              IF k = class_name THEN c[3] ELSE f1_dict.items[k]])
         IN  ClassLoop(reg3, dict, class_list, i + 1, predictions, labels)

InitWeightedF1 ==
    /\ cm \in [class_list : ClassLists, seen : {0}]
    /\ registry = [name \in MetricNames(cm.class_list) |-> NoneVal]
    /\ batches = 0
    /\ last = Idle
    /\ heap = <<>>
    /\ shards = <<>>
    /\ pool = {}
    /\ auc = NoneVal
    /\ cmpool = {}
    /\ subject = NoneVal

\* _update_confusion_matrix(batch, predictions)
UpdateConfusionMatrix(batch) ==
    /\ batches < MaxBatches
    /\ LET done == ClassLoop(registry, EmptyDict, cm.class_list, 1, Predictions(batch),
                             GoldLabels(batch))
       IN  registry' = RecordLocalMetric(done.registry, <<"weighted_f1">>,
                                         WF1ComputeMany(done.f1_dict))
    /\ batches' = batches + 1
    /\ cm' = [cm EXCEPT !.seen = @ + Len(batch)]
    /\ last' = Idle
    /\ UNCHANGED <<heap, shards, pool, auc, cmpool, subject>>

\* value() of the merged 'weighted_f1' metric
ReportWeightedF1 ==
    /\ registry[<<"weighted_f1">>] # NoneVal
    /\ last' = [op |-> "value", self |-> registry[<<"weighted_f1">>],
                result |-> WF1Value(registry[<<"weighted_f1">>])]
    /\ UNCHANGED <<heap, shards, pool, auc, batches, cm, cmpool, registry, subject>>

NextWeightedF1 ==
    \/ \E batch \in SeqsBetween(Examples(cm.class_list), 0, MaxF1BatchLen) :
          UpdateConfusionMatrix(batch)
    \/ ReportWeightedF1

SpecWeightedF1 == InitWeightedF1 /\ [][NextWeightedF1]_vars

----------------------------------------------------------------------------
(* Single metric instances, built directly by the constructors, with the operations
   applied to them: + None, + another ConfusionMatrixMetric, value(). *)

Counts == 0..MaxCount
OneHot == {<<1, 0, 0, 0>>, <<0, 1, 0, 0>>, <<0, 0, 1, 0>>, <<0, 0, 0, 1>>}

\* every ConfusionMatrixMetric view with counters up to MaxCount
CMInstances ==
    {ConfusionMatrixMetric(k, tp, tn, fp, fn) :
        k \in CMKinds, tp \in Counts, tn \in Counts, fp \in Counts, fn \in Counts}

\* the metrics compute_metrics makes of one pair, and the default-constructed ones
CMOperands ==
    {ConfusionMatrixMetric(k, t[1], t[2], t[3], t[4]) :
        k \in CMKinds, t \in OneHot \cup {<<0, 0, 0, 0>>}}

AucInstances ==
    {RawDataToAuc(TrueLabels(b), ClassProbs(b), ClassName, DefaultDecPlaces) :
        b \in SeqsBetween(Samples, 0, MaxBatchLen)}

F1Instances ==
    {ConfusionMatrixMetric("ClassificationF1Metric", tp, tn, fp, fn) :
        tp \in 0..1, tn \in 0..1, fp \in 0..1, fn \in 0..1}

WF1Instances ==
    {WeightedF1Metric(EmptyDict)}
        \cup {WeightedF1Metric(Dict(<<"A", "B">>, [c \in Classes |-> IF c = "A" THEN a ELSE b])) :
                  a \in F1Instances, b \in F1Instances}

InitMetric ==
    /\ subject \in CMInstances \cup AucInstances \cup WF1Instances
    /\ last = Idle
    /\ heap = <<>>
    /\ shards = <<>>
    /\ pool = {}
    /\ auc = NoneVal
    /\ batches = 0
    /\ cm = NoneVal
    /\ cmpool = {}
    /\ registry = NoneVal

\* subject + None
AddNone ==
    /\ last' = [op |-> "add", self |-> subject, other |-> NoneVal,
                result |-> MetricAdd(subject, NoneVal)]
    /\ UNCHANGED <<heap, shards, pool, auc, batches, cm, cmpool, registry, subject>>

\* subject + other, both ConfusionMatrixMetric views
AddOther(other) ==
    /\ IsConfusionMatrixMetric(subject)
    /\ last' = [op |-> "add", self |-> subject, other |-> other,
                result |-> MetricAdd(subject, other)]
    /\ UNCHANGED <<heap, shards, pool, auc, batches, cm, cmpool, registry, subject>>

\* subject.value()
Value ==
    /\ last' = [op |-> "value", self |-> subject, result |-> MetricValue(subject)]
    /\ UNCHANGED <<heap, shards, pool, auc, batches, cm, cmpool, registry, subject>>

NextMetric ==
    \/ AddNone
    \/ \E other \in CMOperands : AddOther(other)
    \/ Value

SpecMetric == InitMetric /\ [][NextMetric]_vars

----------------------------------------------------------------------------
(* Claims about the AUC reduction (Spec) *)

\* the accumulator of shard i alone, and of the shards of a set taken as one dataset
RawOf(i) ==
    RawDataToAuc(TrueLabels(shards[i]), ClassProbs(shards[i]), ClassName, DefaultDecPlaces)

WholeOf(of) ==
    RawDataToAuc(TrueLabels(Concat(shards, of)), ClassProbs(Concat(shards, of)),
                 ClassName, DefaultDecPlaces)

HasBothClasses(of) ==
    LET d == Concat(shards, of)
    IN  /\ \E i \in 1..Len(d) : d[i].label = ClassName
        /\ \E i \in 1..Len(d) : d[i].label # ClassName

\* ((A1 + A2) + A3) + ... and A1 + (A2 + (A3 + ...)) over the shards listed in idx
RECURSIVE LeftFold(_)
LeftFold(idx) ==
    IF Len(idx) = 1 THEN RawOf(idx[1])
    ELSE AucAdd(LeftFold(SubSeq(idx, 1, Len(idx) - 1)), RawOf(idx[Len(idx)]))

RECURSIVE RightFold(_)
RightFold(idx) ==
    IF Len(idx) = 1 THEN RawOf(idx[1])
    ELSE AucAdd(RawOf(idx[1]), RightFold(Tail(idx)))

\* C1: AUC grid-invariance. Whatever way the non-empty shards of a dataset with a
\* positive and a negative sample were merged, no merge raises and the merged
\* accumulator has the counts, the thresholds, the per-threshold buckets and the
\* value() of raw_data_to_auc run once over the whole dataset.
C1_GridInvariance ==
    /\ last.op = "add" => ~IsRaised(last.result)
    /\ \A e \in pool :
          HasBothClasses(e.of) =>
              LET whole == WholeOf(e.of)
              IN  /\ e.m.pos_cnt = whole.pos_cnt
                  /\ e.m.neg_cnt = whole.neg_cnt
                  /\ e.m.sorted_keys = whole.sorted_keys
                  /\ e.m.key_vals = whole.key_vals
                  /\ ~IsRaised(AucValue(whole))
                  /\ AucValue(e.m) = AucValue(whole)

\* C1 witness: three shards with different grids have been merged into one
\* accumulator of a dataset that holds both classes.
C1_Witness ==
    /\ last.op = "add"
    /\ last.self.sorted_keys # last.other.sorted_keys
    /\ \E e \in pool : e.of = {1, 2, 3} /\ e.m = last.result /\ HasBothClasses(e.of)

\* C2: AUCMetrics merge is commutative and associative. The result of every merge
\* performed equals the merge of the same operands in the other order, and an
\* accumulator merged from several shards, in whatever order and grouping, equals both
\* the left-nested and the right-nested sum of the shards' accumulators, in thresholds,
\* buckets, counts and value().
C2_MergeCommutesAndAssociates ==
    /\ last.op = "add" =>
          LET swapped == AucAdd(last.other, last.self)
          IN  /\ ~IsRaised(last.result)
              /\ last.result = swapped
              /\ AucValue(last.result) = AucValue(swapped)
    /\ \A e \in pool :
          Cardinality(e.of) > 1 =>
              LET l == LeftFold(Sorted(e.of))
                  r == RightFold(Sorted(e.of))
                  v == AucValue(e.m)
              IN  /\ e.m = l /\ e.m = r
                  /\ v = AucValue(l) /\ v = AucValue(r)

\* C2 witness: a + (b + c) has been computed, b + c itself from operands with
\* different grids, so the result is compared with (a + b) + c.
C2_Witness ==
    /\ last.op = "add"
    /\ last.of = <<{1}, {2, 3}>>
    /\ RawOf(2).sorted_keys # RawOf(3).sorted_keys
    /\ RawOf(1).sorted_keys # last.other.sorted_keys
    /\ \E e \in pool : e.of = {1, 2, 3} /\ e.m = last.result

\* C4: value() is the conventional ROC AUC. For labels [pos, neg] and class pos,
\* value() is 1 for the probabilities [0.9, 0.1] and 0 for [0.1, 0.9].
C4_ValueIsConventionalAuc ==
    last.op = "value" =>
        /\ last.self = RawDataToAuc(<<"pos", "neg">>, <<9000, 1000>>, "pos", DefaultDecPlaces)
              => last.result = One
        /\ last.self = RawDataToAuc(<<"pos", "neg">>, <<1000, 9000>>, "pos", DefaultDecPlaces)
              => last.result = Zero

\* What the code returns for the two scenarios of C4: 1 minus the area.
C4_ValueIsOneMinusAuc ==
    last.op = "value" =>
        /\ last.self = RawDataToAuc(<<"pos", "neg">>, <<9000, 1000>>, "pos", DefaultDecPlaces)
              => last.result = Zero
        /\ last.self = RawDataToAuc(<<"pos", "neg">>, <<1000, 9000>>, "pos", DefaultDecPlaces)
              => last.result = One

----------------------------------------------------------------------------
(* Claims about the agent's AUC accumulator (SpecAgent) *)

EmptyAuc == RawDataToAuc(<<>>, <<>>, ClassName, DefaultDecPlaces)

SameAccumulator(x, y) ==
    /\ x.sorted_keys = y.sorted_keys
    /\ x.key_vals = y.key_vals
    /\ x.pos_cnt = y.pos_cnt
    /\ x.neg_cnt = y.neg_cnt

\* C3: the accumulator of empty input is the identity of merging. Every merge the
\* agent performs with the empty accumulator on the left, and every merge with it on
\* the right, completes without error and equals the other operand in thresholds,
\* buckets and positive/negative counts.
C3_EmptyIsMergeIdentity ==
    last.op = "add" =>
        /\ last.self = EmptyAuc =>
              /\ ~IsRaised(last.result)
              /\ SameAccumulator(last.result, last.other)
        /\ last.other = EmptyAuc =>
              /\ ~IsRaised(last.result)
              /\ SameAccumulator(last.result, last.self)

\* What the code does in the case of C3: the empty accumulator merged with a
\* non-empty one raises IndexError, and the agent's accumulator stays empty.
C3_EmptyMergeRaises ==
    /\ auc = EmptyAuc
    /\ last.op = "add" =>
          /\ last.self = EmptyAuc
          /\ last.other # EmptyAuc => last.result = Raised("IndexError")
          /\ last.other = EmptyAuc => last.result = EmptyAuc

----------------------------------------------------------------------------
(* Claims about the confusion-matrix reduction (SpecConfusion) *)

Counters(m) ==
    <<m.true_positives, m.true_negatives, m.false_positives, m.false_negatives>>

\* the batch counts of the pairs with index in of, counted over the inputs
BatchCounts(of) ==
    LET p(i) == cm.predictions[i] = cm.positive_class
        g(i) == cm.gold_labels[i] = cm.positive_class
    IN  <<Cardinality({i \in of : p(i) /\ g(i)}),
          Cardinality({i \in of : ~p(i) /\ ~g(i)}),
          Cardinality({i \in of : p(i) /\ ~g(i)}),
          Cardinality({i \in of : ~p(i) /\ g(i)})>>

IsScenario ==
    /\ cm.gold_labels = <<"A", "A", "B", "B">>
    /\ cm.predictions = <<"A", "B", "B", "A">>
    /\ cm.positive_class = "A"

\* C5: merge equals batch. compute_metrics returns one metric per pair and view, each
\* of the view's class with exactly one counter 1 and the others 0; the metrics of a
\* view merged with +, in whatever order, have the batch counts of the pairs merged;
\* for labels [A,A,B,B], predictions [A,B,B,A] and positive class A the merge of all
\* four has TP = TN = FP = FN = 1 and Precision = Recall = F1 = 1/2.
C5_MergeEqualsBatch ==
    /\ cm.computed # NoneVal =>
          \A v \in 1..3 :
              /\ Len(cm.computed[v]) = Len(cm.predictions)
              /\ \A i \in 1..Len(cm.computed[v]) :
                    /\ cm.computed[v][i].kind = Views[v]
                    /\ Counters(cm.computed[v][i]) \in OneHot
    /\ last.op = "add" => \A v \in 1..3 : ~IsRaised(last.result[v])
    /\ \A e \in cmpool : \A v \in 1..3 : Counters(e.m[v]) = BatchCounts(e.of)
    /\ (last.op = "value" /\ IsScenario) =>
          /\ \A v \in 1..3 : Counters(last.self[v]) = <<1, 1, 1, 1>>
          /\ last.result = <<Half, Half, Half>>

\* C5 witness: the four metrics of the scenario have been merged and valued.
C5_Witness ==
    /\ IsScenario
    /\ last.op = "value"
    /\ \E e \in cmpool : e.of = {1, 2, 3, 4} /\ e.m = last.self

\* ((m1 + m2) + m3) + ... and m1 + (m2 + (m3 + ...)) over the metrics of view v
\* listed in idx
RECURSIVE CMLeftFold(_, _)
CMLeftFold(v, idx) ==
    IF Len(idx) = 1 THEN cm.computed[v][idx[1]]
    ELSE CMAdd(CMLeftFold(v, SubSeq(idx, 1, Len(idx) - 1)), cm.computed[v][idx[Len(idx)]])

RECURSIVE CMRightFold(_, _)
CMRightFold(v, idx) ==
    IF Len(idx) = 1 THEN cm.computed[v][idx[1]]
    ELSE CMAdd(cm.computed[v][idx[1]], CMRightFold(v, Tail(idx)))

\* C6: ConfusionMatrixMetric merge is a commutative, associative element-wise sum
\* that keeps the concrete class. For operands of one class, a + b has every counter
\* the sum of the operands' counters and the class of the operands, equals b + a in
\* counters and value(), and a metric merged from several, in whatever order and
\* grouping, equals the left-nested and the right-nested sum in counters and value().
C6_MergeIsCommutativeAssociativeSum ==
    /\ last.op = "add" =>
          \A v \in 1..3 :
              LET a == last.self[v]
                  b == last.other[v]
                  r == last.result[v]
                  swapped == CMAdd(b, a)
              IN  /\ ~IsRaised(r)
                  /\ \A k \in 1..4 : Counters(r)[k] = Counters(a)[k] + Counters(b)[k]
                  /\ r.kind = a.kind /\ r.kind = b.kind
                  /\ Counters(swapped) = Counters(r)
                  /\ swapped.kind = r.kind
                  /\ CMValue(swapped) = CMValue(r)
    /\ \A e \in cmpool :
          Cardinality(e.of) > 1 =>
              \A v \in 1..3 :
                  LET l == CMLeftFold(v, Sorted(e.of))
                      r == CMRightFold(v, Sorted(e.of))
                  IN  /\ e.m[v] = l /\ e.m[v] = r
                      /\ CMValue(e.m[v]) = CMValue(l)
                      /\ CMValue(e.m[v]) = CMValue(r)

\* C6 witness: a + (b + c) has been computed from three metrics that do not all count
\* the same outcome, so the result is compared with (a + b) + c.
C6_Witness ==
    /\ last.op = "add"
    /\ Counters(last.self[1]) = <<0, 1, 0, 0>>
    /\ last.other[1].true_positives = 1
    /\ last.other[1].false_negatives = 1
    /\ \E e \in cmpool : e.of = {1, 2, 3} /\ e.m = last.result

----------------------------------------------------------------------------
(* Claims about single metric instances (SpecMetric) *)

\* C7: merging two ConfusionMatrixMetric instances of different concrete classes
\* fails with an error and produces no merged metric.
C7_DifferentSubtypesFail ==
    (/\ last.op = "add"
     /\ last.other # NoneVal
     /\ IsConfusionMatrixMetric(last.self)
     /\ IsConfusionMatrixMetric(last.other)
     /\ last.self.kind # last.other.kind)
        => IsRaised(last.result)

\* What the code does in the case of C7: the merge of two different classes is the
\* element-wise sum, of the left operand's class.
C7_DifferentSubtypesTakeLeftType ==
    (/\ last.op = "add"
     /\ last.other # NoneVal
     /\ IsConfusionMatrixMetric(last.self)
     /\ last.self.kind # last.other.kind)
        => /\ ~IsRaised(last.result)
           /\ last.result.kind = last.self.kind
           /\ \A k \in 1..4 :
                 Counters(last.result)[k] = Counters(last.self)[k] + Counters(last.other)[k]

\* C8: merging with an absent operand is the identity. For every
\* ConfusionMatrixMetric, AUCMetrics and WeightedF1Metric m, m + None does not raise
\* and is a metric of the class of m with the counters, grid or mapping of m and the
\* value() of m.
C8_NoneIsIdentity ==
    (last.op = "add" /\ last.other = NoneVal) =>
        /\ ~IsRaised(last.result)
        /\ last.result.kind = last.self.kind
        /\ last.result = last.self
        /\ MetricValue(last.result) = MetricValue(last.self)

\* C8 witness: None has been added to a ConfusionMatrixMetric with non-zero counters
\* (the same step exists for the AUCMetrics and WeightedF1Metric instances).
C8_Witness ==
    /\ last.op = "add"
    /\ last.other = NoneVal
    /\ last.self.kind = "RecallMetric"
    /\ last.self.true_positives = 1
    /\ last.self.false_negatives = 1

\* C9: value() of PrecisionMetric, RecallMetric and ClassificationF1Metric never
\* raises, is exactly 0 whenever true_positives is 0, and otherwise is TP/(TP+FP),
\* TP/(TP+FN) and 2*TP/(2*TP+FP+FN) respectively.
C9_ValueFormulas ==
    (last.op = "value" /\ IsConfusionMatrixMetric(last.self)) =>
        LET tp == last.self.true_positives
            fp == last.self.false_positives
            fn == last.self.false_negatives
            r == last.result
        IN  /\ ~IsRaised(r)
            /\ r.den > 0
            /\ tp = 0 => r.num = 0
            /\ (tp > 0 /\ last.self.kind = "PrecisionMetric") =>
                  r.num * (tp + fp) = tp * r.den
            /\ (tp > 0 /\ last.self.kind = "RecallMetric") =>
                  r.num * (tp + fn) = tp * r.den
            /\ (tp > 0 /\ last.self.kind = "ClassificationF1Metric") =>
                  r.num * (2 * tp + fp + fn) = 2 * tp * r.den

\* C9 witness: value() has been taken of a RecallMetric with a true positive, a
\* false negative and no false positive.
C9_Witness ==
    /\ last.op = "value"
    /\ last.self.kind = "RecallMetric"
    /\ last.self.true_positives = 1
    /\ last.self.false_negatives = 1
    /\ last.self.false_positives = 0
    /\ last.result = Half

----------------------------------------------------------------------------
(* Claims about the agent's weighted F1 (SpecWeightedF1) *)

Total(m) == m.true_positives + m.true_negatives + m.false_positives + m.false_negatives

\* sum over the classes of F1_c.value() * (TP_c + FN_c) / n
RECURSIVE SupportWeightedF1(_, _, _)
SupportWeightedF1(items, classes, n) ==
    IF classes = {} THEN Zero
    ELSE LET c == CHOOSE x \in classes : TRUE
             f == F1Value(items[c])
         IN  FracAdd(Frac(f.num * (items[c].true_positives + items[c].false_negatives),
                          f.den * n),
                     SupportWeightedF1(items, classes \ {c}, n))

ScenarioF1 ==
    WeightedF1Metric(Dict(<<"A", "B">>,
        [c \in {"A", "B"} |->
            IF c = "A" THEN ConfusionMatrixMetric("ClassificationF1Metric", 1, 1, 0, 0)
            ELSE ConfusionMatrixMetric("ClassificationF1Metric", 0, 1, 0, 1)]))

\* C10: the WeightedF1Metric value is the support-weighted F1 with a shared, non-zero
\* total. Once the agent has seen N > 0 examples, the merged 'weighted_f1' metric has
\* one F1 metric per class of the class list, each with TP+TN+FP+FN = N, and its
\* value() does not raise and is the sum over the classes of
\* F1_c.value() * (TP_c + FN_c) / N; an empty mapping has value 0, and
\* {A: F1(1,1,0,0), B: F1(0,1,0,1)} has value 1/2.
C10_SupportWeightedF1 ==
    LET w == registry[<<"weighted_f1">>]
        classes == {cm.class_list[i] : i \in 1..Len(cm.class_list)}
    IN  /\ cm.seen > 0 =>
              /\ w # NoneVal
              /\ ~IsRaised(w)
              /\ w.kind = "WeightedF1Metric"
              /\ w.values.order = cm.class_list
              /\ \A c \in classes : Total(w.values.items[c]) = cm.seen
              /\ ~IsRaised(WF1Value(w))
              /\ WF1Value(w) = SupportWeightedF1(w.values.items, classes, cm.seen)
        /\ last.op = "value" =>
              /\ cm.seen > 0
              /\ last.result = SupportWeightedF1(last.self.values.items, classes, cm.seen)
        /\ WF1Value(WeightedF1Metric(EmptyDict)) = Zero
        /\ WF1Value(ScenarioF1) = Half

\* C10 witness: value() has been taken of the metric merged over two batches with
\* three examples, where class A has a true positive and a false positive and class B
\* a true positive and a false negative: 2/3 * 1/3 + 2/3 * 2/3 = 2/3.
C10_Witness ==
    /\ last.op = "value"
    /\ batches = 2
    /\ cm.seen = 3
    /\ Counters(last.self.values.items["A"]) = <<1, 1, 1, 0>>
    /\ Counters(last.self.values.items["B"]) = <<1, 1, 0, 1>>
    /\ last.result = Frac(2, 3)

----------------------------------------------------------------------------
(* Further claims about the AUC reduction (Spec) *)

\* C11: value() of an AUCMetrics with no positive or no negative sample ends in an
\* error. Every value() taken of an accumulator, merged or not, whose pos_cnt or
\* neg_cnt is 0 raises, and so does value() of every accumulator in the pool with an
\* absent class and of the accumulator of empty input; none returns a number.
C11_DegenerateValueRaises ==
    /\ (last.op = "value" /\ (last.self.pos_cnt = 0 \/ last.self.neg_cnt = 0)) =>
          IsRaised(last.result)
    /\ \A e \in pool :
          (e.m.pos_cnt = 0 \/ e.m.neg_cnt = 0) => IsRaised(AucValue(e.m))
    /\ IsRaised(AucValue(EmptyAuc))

\* C11 witness: value() has been taken of an accumulator merged from several shards
\* that hold positive samples only, and raised ZeroDivisionError.
C11_Witness ==
    /\ last.op = "value"
    /\ Cardinality(last.of[1]) > 1
    /\ last.self.neg_cnt = 0
    /\ last.self.pos_cnt > 1
    /\ last.result = Raised("ZeroDivisionError")

----------------------------------------------------------------------------
(* The reduction of AUC accumulators built at different precisions: every shard is
   turned into an accumulator by raw_data_to_auc with its own max_dec_places, so the
   grids of the shards need not be aligned; the accumulators are then merged and
   valued as in the reduction above. *)

MixedSamples == {Sample("pos", 1234), Sample("neg", 1500), Sample("pos", 9000)}
DecPlaces == {1, 3}

\* all ways to hand out at most n samples as k non-empty shards
RECURSIVE MixedShardings(_, _)
MixedShardings(k, n) ==
    IF k = 0 THEN {<<>>}
    ELSE UNION {{<<s>> \o rest : rest \in MixedShardings(k - 1, n - Len(s))} :
                    s \in SeqsBetween(MixedSamples, 1, n - (k - 1))}

InitMixed ==
    /\ \E k \in 1..MaxShards :
          \E sh \in MixedShardings(k, MaxSamples) :
              shards \in {[i \in 1..k |-> [samples |-> sh[i], max_dec_places |-> d[i]]] :
                              d \in [1..k -> DecPlaces]}
    /\ pool = {}
    /\ last = Idle
    /\ heap = <<>>
    /\ auc = NoneVal
    /\ batches = 0
    /\ cm = NoneVal
    /\ cmpool = {}
    /\ registry = NoneVal
    /\ subject = NoneVal

\* raw_data_to_auc on every shard, at the precision of the shard
BuildMixedShards ==
    /\ pool = {}
    /\ pool' = {[of |-> {i},
                 m |-> RawDataToAuc(TrueLabels(shards[i].samples),
                                    ClassProbs(shards[i].samples), ClassName,
                                    shards[i].max_dec_places)] : i \in 1..Len(shards)}
    /\ UNCHANGED <<heap, shards, auc, batches, cm, cmpool, registry, subject, last>>

NextMixed ==
    \/ BuildMixedShards
    \/ \E e1 \in pool, e2 \in pool : Merge(e1, e2)
    \/ \E e \in pool : Report(e)

SpecMixed == InitMixed /\ [][NextMixed]_vars

----------------------------------------------------------------------------
(* Claims about the reduction at different precisions (SpecMixed) *)

\* the thresholds are strictly ascending and are the keys of the bucket map
AscendingKeys(m) ==
    /\ \A i \in 1..(Len(m.sorted_keys) - 1) : m.sorted_keys[i] < m.sorted_keys[i + 1]
    /\ DOMAIN m.key_vals = {m.sorted_keys[i] : i \in 1..Len(m.sorted_keys)}

\* C12: bucket monotonicity. In every accumulator built by raw_data_to_auc, at any
\* precision, and in every accumulator merged from such accumulators in any order and
\* grouping, the thresholds are strictly ascending, the false-positive and the
\* true-positive count do not grow from a threshold to a greater one, the bucket of
\* the sentinel 1.5 is (0, 0), and no bucket exceeds (neg_cnt, pos_cnt).
C12_BucketsMonotone ==
    \A e \in pool :
        /\ AscendingKeys(e.m)
        /\ \A t1 \in DOMAIN e.m.key_vals, t2 \in DOMAIN e.m.key_vals :
              t1 < t2 => /\ e.m.key_vals[t1].fp >= e.m.key_vals[t2].fp
                         /\ e.m.key_vals[t1].tp >= e.m.key_vals[t2].tp
        /\ Sentinel \in DOMAIN e.m.key_vals
        /\ e.m.key_vals[Sentinel] = Bucket(0, 0)
        /\ \A t \in DOMAIN e.m.key_vals :
              /\ e.m.key_vals[t].fp >= 0 /\ e.m.key_vals[t].fp <= e.m.neg_cnt
              /\ e.m.key_vals[t].tp >= 0 /\ e.m.key_vals[t].tp <= e.m.pos_cnt

\* C12 witness: three shards have been merged into one accumulator, the last merge
\* of operands whose grids differ, and the merged buckets fall from (1, 2) to (0, 0).
C12_Witness ==
    /\ last.op = "add"
    /\ last.self.sorted_keys # last.other.sorted_keys
    /\ \E i \in 1..Len(shards), j \in 1..Len(shards) :
          shards[i].max_dec_places # shards[j].max_dec_places
    /\ \E e \in pool :
          /\ e.of = {1, 2, 3}
          /\ e.m = last.result
          /\ e.m.key_vals[e.m.sorted_keys[1]] = Bucket(1, 2)

\* the samples of the two shards of a merge with probability >= t, as a bucket
TrueBucket(i, j, t) ==
    LET count(sh, positive) ==
            Cardinality({n \in 1..Len(sh) :
                            /\ sh[n].prob >= t
                            /\ (sh[n].label = ClassName) = positive})
    IN  Bucket(count(shards[i].samples, FALSE) + count(shards[j].samples, FALSE),
               count(shards[i].samples, TRUE) + count(shards[j].samples, TRUE))

\* C14: merged buckets stay exact across differently-gridded shards. For the
\* accumulators a and b of two non-empty shards, built at the same or at different
\* precisions, a + b completes, its thresholds are the ascending union without
\* duplicates of both grids, and its bucket at every threshold t is the number of
\* samples of both shards with probability >= t, split by the class.
C14_MergedBucketsExact ==
    (last.op = "add" /\ Cardinality(last.of[1]) = 1 /\ Cardinality(last.of[2]) = 1) =>
        LET i == CHOOSE x \in last.of[1] : TRUE
            j == CHOOSE x \in last.of[2] : TRUE
            union == {last.self.sorted_keys[n] : n \in 1..Len(last.self.sorted_keys)}
                         \cup {last.other.sorted_keys[n] : n \in 1..Len(last.other.sorted_keys)}
        IN  /\ ~IsRaised(last.result)
            /\ last.result.sorted_keys = Sorted(union)
            /\ \A t \in union : last.result.key_vals[t] = TrueBucket(i, j, t)

\* What the code does in the case of C14: the merge is exact when both shards were
\* built at the same precision; at different precisions the thresholds are the
\* union, but a bucket can miss samples of the side whose grid lacks the threshold,
\* so it is at most the true count.
C14_ExactOnlyOnAlignedGrids ==
    (last.op = "add" /\ Cardinality(last.of[1]) = 1 /\ Cardinality(last.of[2]) = 1) =>
        LET i == CHOOSE x \in last.of[1] : TRUE
            j == CHOOSE x \in last.of[2] : TRUE
            union == {last.self.sorted_keys[n] : n \in 1..Len(last.self.sorted_keys)}
                         \cup {last.other.sorted_keys[n] : n \in 1..Len(last.other.sorted_keys)}
        IN  /\ ~IsRaised(last.result)
            /\ last.result.sorted_keys = Sorted(union)
            /\ \A t \in union :
                  /\ last.result.key_vals[t].fp <= TrueBucket(i, j, t).fp
                  /\ last.result.key_vals[t].tp <= TrueBucket(i, j, t).tp
                  /\ shards[i].max_dec_places = shards[j].max_dec_places =>
                        last.result.key_vals[t] = TrueBucket(i, j, t)

----------------------------------------------------------------------------
(* Object identity.  The heap is the sequence of the objects allocated so far, an
   address is an index into it, and Ref(a) is a reference to the object at a.  The
   mutable containers are objects of their own: a list is ListCell, a dict DictCell
   (with references as values); a ConfusionMatrixMetric holds its four int counters
   itself, an AUCMetrics references its sorted_keys list and its key_vals dict, whose
   values are [fp, tp] lists, and a WeightedF1Metric references its _values dict, whose
   values are ClassificationF1Metric objects.  Every operation yields the heap after
   it and its result (a reference, or Raised); temporaries that are unreachable when
   the operation returns are not kept. *)

Ref(a) == [kind |-> "ref", addr |-> a]
IsRef(x) == x.kind = "ref"
ListCell(items) == [kind |-> "list", items |-> items]
DictCell(order, items) == [kind |-> "dict", order |-> order, items |-> items]
Outcome(h, result) == [heap |-> h, result |-> result]

\* the AUCMetrics at address a, with the contents of its containers
AucView(h, a) ==
    LET d == h[h[a].key_vals]
    IN  AUCMetrics([t \in DOMAIN d.items |->
                       Bucket(h[d.items[t]].items[1], h[d.items[t]].items[2])],
                   h[a].pos_cnt, h[a].neg_cnt, h[h[a].sorted_keys].items, h[a].class_name)

\* the orders in which the elements of the set S can be iterated
Orderings(S) ==
    {q \in SeqsOfLen(S, Cardinality(S)) : \A i \in 1..Len(q), j \in 1..Len(q) : q[i] = q[j] => i = j}

\* the allocations that make an AUCMetrics with the contents of m: the threshold
\* list, the dict, one [fp, tp] list per threshold, then the instance; order is the
\* order in which the keys were inserted into the dict
AllocAuc(h, m, order) ==
    LET n == Len(h)
        keys == m.sorted_keys
        k == Len(keys)
        at(t) == n + 2 + (CHOOSE i \in 1..k : keys[i] = t)
    IN  Outcome(h \o <<ListCell(keys), DictCell(order, [t \in DOMAIN m.key_vals |-> at(t)])>>
                  \o [i \in 1..k |-> ListCell(<<m.key_vals[keys[i]].fp, m.key_vals[keys[i]].tp>>)]
                  \o <<[kind |-> "AUCMetrics", key_vals |-> n + 2, pos_cnt |-> m.pos_cnt,
                        neg_cnt |-> m.neg_cnt, sorted_keys |-> n + 1,
                        class_name |-> m.class_name]>>,
                Ref(n + 3 + k))

\* the set all_thresholds of raw_data_to_auc; no set is built for empty input
ThresholdSet(class_probs, max_dec_places) ==
    IF Len(class_probs) = 0 THEN {} ELSE AllThresholds(class_probs, max_dec_places)

\* AUCMetrics.raw_data_to_auc, with its allocations. values is filled by iterating
\* the set all_thresholds, whose iteration order the interpreter decides: iteration
\* is that order, one of Orderings(ThresholdSet(class_probs, max_dec_places))
HeapRawDataToAuc(h, true_labels, class_probs, class_name, max_dec_places, iteration) ==
    LET m == RawDataToAuc(true_labels, class_probs, class_name, max_dec_places)
    IN  IF IsRaised(m) THEN Outcome(h, m) ELSE AllocAuc(h, m, iteration)

\* AUCMetrics.__add__, with its allocations: a new threshold list, a new dict filled in
\* the order of the merged thresholds and a new [fp, tp] list per threshold; None
\* gives back self
HeapAucAdd(h, self, other) ==
    IF other = NoneVal THEN Outcome(h, self)
    ELSE IF h[other.addr].kind # "AUCMetrics" THEN Outcome(h, Raised("AssertionError"))
    ELSE LET m == AucAdd(AucView(h, self.addr), AucView(h, other.addr))
         IN  IF IsRaised(m) THEN Outcome(h, m) ELSE AllocAuc(h, m, m.sorted_keys)

\* ConfusionMatrixMetric.__add__, with its allocation: a new instance of type(self)
HeapCMAdd(h, self, other) ==
    IF other = NoneVal THEN Outcome(h, self)
    ELSE LET m == CMAdd(h[self.addr], h[other.addr])
         IN  IF IsRaised(m) THEN Outcome(h, m) ELSE Outcome(Append(h, m), Ref(Len(h) + 1))

\* Metric.__radd__, reached by None + v: the result is v itself
HeapMetricRAdd(h, self, other) ==
    IF other = NoneVal THEN Outcome(h, self) ELSE HeapCMAdd(h, self, other)

\* d[k] = v on the dict at address d
SetItem(h, d, k, v) ==
    LET cell == h[d]
    IN  [h EXCEPT ![d] = DictCell(IF k \in DOMAIN cell.items THEN cell.order
                                  ELSE Append(cell.order, k),
                                  [c \in DOMAIN cell.items \cup {k} |->
                                      IF c = k THEN v ELSE cell.items[c]])]

\* the loop of WeightedF1Metric.__add__: output[k] = output.get(k, None) + v for the
\* items of the dict at address src, output being the dict at address output
RECURSIVE HeapWF1AddLoop(_, _, _, _)
HeapWF1AddLoop(h, output, src, i) ==
    IF i > Len(h[src].order) THEN Outcome(h, Ref(output))
    ELSE LET k == h[src].order[i]
             v == Ref(h[src].items[k])
             sum == IF k \in DOMAIN h[output].items
                    THEN HeapCMAdd(h, Ref(h[output].items[k]), v)
                    ELSE HeapMetricRAdd(h, v, NoneVal)
         IN  IF IsRaised(sum.result) THEN sum
             ELSE HeapWF1AddLoop(SetItem(sum.heap, output, k, sum.result.addr), output,
                                 src, i + 1)

\* a merge that fills the dict of self instead of a copy of it
HeapWF1AddInPlace(h, self, other) ==
    IF other = NoneVal THEN Outcome(h, self)
    ELSE IF h[other.addr].kind # "WeightedF1Metric" THEN Outcome(h, Raised("AssertionError"))
    ELSE LET output == h[self.addr].values
             done == HeapWF1AddLoop(h, output, h[other.addr].values, 1)
         IN  IF IsRaised(done.result) THEN Outcome(h, done.result)
             ELSE Outcome(Append(done.heap, [kind |-> "WeightedF1Metric", values |-> output]),
                          Ref(Len(done.heap) + 1))

\* WeightedF1Metric.__add__, with its allocations: output = dict(**self._values) is a
\* new dict holding the same values, filled by the loop, then a new instance
HeapWF1Add(h, self, other) ==
    IF other = NoneVal THEN Outcome(h, self)
    ELSE IF h[other.addr].kind # "WeightedF1Metric" THEN Outcome(h, Raised("AssertionError"))
    ELSE LET output == Len(h) + 1
             done == HeapWF1AddLoop(Append(h, h[h[self.addr].values]), output,
                                    h[other.addr].values, 1)
         IN  IF IsRaised(done.result) THEN Outcome(h, done.result)
             ELSE Outcome(Append(done.heap, [kind |-> "WeightedF1Metric", values |-> output]),
                          Ref(Len(done.heap) + 1))

\* self + other, by the class of self
HeapAdd(h, self, other) ==
    IF h[self.addr].kind = "AUCMetrics" THEN HeapAucAdd(h, self, other)
    ELSE IF h[self.addr].kind = "WeightedF1Metric" THEN HeapWF1Add(h, self, other)
    ELSE HeapCMAdd(h, self, other)

\* WeightedF1Metric(metrics) over a new dict of new ClassificationF1Metric objects
HeapWeightedF1(h, metrics) ==
    LET n == Len(h)
        k == Len(metrics.order)
        at(c) == n + (CHOOSE i \in 1..k : metrics.order[i] = c)
    IN  Outcome(h \o [i \in 1..k |-> metrics.items[metrics.order[i]]]
                  \o <<DictCell(metrics.order, [c \in DOMAIN metrics.items |-> at(c)]),
                        [kind |-> "WeightedF1Metric", values |-> n + k + 1]>>,
                Ref(n + k + 2))

----------------------------------------------------------------------------
(* Merges on the heap: two instances a and b of one accumulator type are constructed,
   then merges are performed, the first of a and b (in either order, or of one with
   itself), every later one involving the result of the merge before it. *)

HeapF1Values ==
    {ConfusionMatrixMetric("ClassificationF1Metric", 1, 0, 0, 0),
     ConfusionMatrixMetric("ClassificationF1Metric", 0, 0, 1, 0)}

\* mappings over no class, one class, or both
HeapMappings ==
    {Dict(order, items) :
        order \in {<<>>, <<"A">>, <<"B">>, <<"A", "B">>},
        items \in UNION {[D -> HeapF1Values] : D \in SUBSET Classes}}

InitHeap ==
    /\ \/ \E x \in CMOperands, y \in CMOperands :
             /\ heap = <<x, y>>
             /\ subject = [a |-> Ref(1), b |-> Ref(2), initial |-> heap]
       \/ \E x \in SeqsBetween(Samples, 0, 1), y \in SeqsBetween(Samples, 0, 1) :
             \E ix \in Orderings(ThresholdSet(ClassProbs(x), DefaultDecPlaces)),
                iy \in Orderings(ThresholdSet(ClassProbs(y), DefaultDecPlaces)) :
                 LET a == HeapRawDataToAuc(<<>>, TrueLabels(x), ClassProbs(x), ClassName,
                                           DefaultDecPlaces, ix)
                     b == HeapRawDataToAuc(a.heap, TrueLabels(y), ClassProbs(y), ClassName,
                                           DefaultDecPlaces, iy)
                 IN  /\ heap = b.heap
                     /\ subject = [a |-> a.result, b |-> b.result, initial |-> heap]
       \/ \E x \in HeapMappings, y \in HeapMappings :
             /\ DOMAIN x.items = {x.order[i] : i \in 1..Len(x.order)}
             /\ DOMAIN y.items = {y.order[i] : i \in 1..Len(y.order)}
             /\ LET a == HeapWeightedF1(<<>>, x)
                    b == HeapWeightedF1(a.heap, y)
                IN  /\ heap = b.heap
                    /\ subject = [a |-> a.result, b |-> b.result, initial |-> heap]
    /\ pool = {subject.a, subject.b}
    /\ batches = 0
    /\ last = Idle
    /\ shards = <<>>
    /\ auc = NoneVal
    /\ cm = NoneVal
    /\ cmpool = {}
    /\ registry = NoneVal

\* x + y on the heap; the result joins the instances held
AddStep(x, y) ==
    /\ batches < MaxBatches
    /\ batches > 0 => (last.result = x \/ last.result = y)
    /\ LET sum == HeapAdd(heap, x, y)
       IN  /\ heap' = sum.heap
           /\ last' = [op |-> "add", self |-> x, other |-> y, result |-> sum.result,
                       before |-> heap]
           /\ pool' = IF IsRef(sum.result) THEN pool \cup {sum.result} ELSE pool
    /\ batches' = batches + 1
    /\ UNCHANGED <<shards, auc, cm, cmpool, registry, subject>>

NextHeap == \E x \in pool, y \in pool : AddStep(x, y)

SpecHeap == InitHeap /\ [][NextHeap]_vars

----------------------------------------------------------------------------
(* Claims about merges on the heap (SpecHeap) *)

\* the containers of the instance r refers to: the threshold list, the bucket map and
\* its [fp, tp] lists of an AUCMetrics, the mapping of a WeightedF1Metric
Containers(h, r) ==
    LET obj == h[r.addr]
    IN  IF obj.kind = "AUCMetrics"
        THEN {obj.sorted_keys, obj.key_vals}
                 \cup {h[obj.key_vals].items[t] : t \in DOMAIN h[obj.key_vals].items}
        ELSE IF obj.kind = "WeightedF1Metric" THEN {obj.values}
        ELSE {}

\* C13: no merge mutates its operands. After a + b every object that existed before
\* the call, the operands and their containers among them, is what it was before; a
\* and b are as constructed after any later merge involving a result; the result is an
\* instance allocated by the call, and its threshold list, bucket map and mapping are
\* containers allocated by the call, none of them a container of a or b.
C13_MergeLeavesOperandsIntact ==
    /\ \A i \in 1..Len(subject.initial) : heap[i] = subject.initial[i]
    /\ last.op = "add" =>
          /\ \A i \in 1..Len(last.before) : heap[i] = last.before[i]
          /\ IsRef(last.result) =>
                /\ last.result.addr > Len(last.before)
                /\ \A c \in Containers(heap, last.result) : c > Len(last.before)
                /\ Containers(heap, last.result)
                       \cap (Containers(heap, last.self) \cup Containers(heap, last.other)) = {}

\* C13 witness: a WeightedF1Metric over class A and one over class B have been merged,
\* and the result, which holds both classes, has been merged with b again.
C13_Witness ==
    /\ last.op = "add"
    /\ batches = 2
    /\ heap[subject.a.addr].kind = "WeightedF1Metric"
    /\ heap[heap[subject.a.addr].values].order = <<"A">>
    /\ heap[heap[subject.b.addr].values].order = <<"B">>
    /\ last.self \notin {subject.a, subject.b}
    /\ last.other = subject.b
    /\ IsRef(last.result)
    /\ heap[heap[last.result.addr].values].order = <<"A", "B">>

====
